---- MODULE Spec2Model ----
(***************************************************************************)
(* Model of the streamlit-gantt application: the session state with its    *)
(* undo/redo history (utils/state.py), the segment editor                  *)
(* (components/editor.py), the import in the sidebar                       *)
(* (components/filters.py, utils/io.py), the render pass of app.py and the *)
(* date helpers of utils/dates.py.                                         *)
(*                                                                         *)
(* DataFrames are objects: a variable or a deque entry holds a reference   *)
(* into heap, .copy() allocates a new object, and an assignment through    *)
(* .loc changes the object every holder of the reference sees.             *)
(***************************************************************************)
EXTENDS Integers, Sequences, FiniteSets, TLC

\* ------------------------------------------------------------------ bounds

\* Operations explored in the "mixed" workload (every operation, every input).
MaxOps == 4

\* Edits explored in the "serial" workload (successive imports of new files).
MaxSerial == 22

\* Files the "mixed" workload imports: 1..MaxFile.
MaxFile == 2

\* Render passes explored in a session of the application.
MaxPasses == 4

\* Days of January 2026 among the dates clip_segment_to_range is called with.
MaxDay == 3

\* The days in the longer run of days that month_range and make_tickvals are called on.
MaxSpan == 70

\* ------------------------------------------------------- program constants

HISTORY_LIMIT == 20

None == "None"

\* ------------------------------------------------------------------- dates

\* A datetime.date.
Date(y, m, d) == [year |-> y, month |-> m, day |-> d]

\* A "YYYY-MM-DD" string: its three fields.
Iso(y, m, d) == <<y, m, d>>

\* date < date, as datetime.date orders them.
DateLT(a, b) ==
    \/ a.year < b.year
    \/ a.year = b.year /\ a.month < b.month
    \/ a.year = b.year /\ a.month = b.month /\ a.day < b.day

DateLE(a, b) == a = b \/ DateLT(a, b)

\* date.strftime("%Y-%m-%d")
Strftime(d) == Iso(d.year, d.month, d.day)

\* datetime.fromisoformat(text).date()
FromIso(text) == Date(text[1], text[2], text[3])

\* ------------------------------------------------------------------ tables

ProgressOptions == <<"planned", "active", "done">>

\* The rows handed to init_state: one project and its segments.
InitialProjects ==
    << [id |-> "0", name |-> 0, progress |-> "planned", note |-> "",
        start_date |-> Iso(2025, 7, 1), end_date |-> Iso(2025, 10, 30)] >>

InitialSegments ==
    << [segment_id |-> "0-main", project_id |-> "0", label |-> "main",
        start_date |-> Iso(2025, 7, 1), end_date |-> Iso(2025, 10, 30)],
       [segment_id |-> "0-extra-1", project_id |-> "0", label |-> "kiso",
        start_date |-> Iso(2025, 7, 8), end_date |-> Iso(2025, 8, 20)],
       [segment_id |-> "0-extra-2", project_id |-> "0", label |-> "tatekata",
        start_date |-> Iso(2025, 8, 21), end_date |-> Iso(2025, 10, 30)] >>

\* The projects table an import of file k yields: the file's rows with id = row index.
ImportedProjects(k) ==
    << [id |-> "0", name |-> k, progress |-> "active", note |-> "",
        start_date |-> Iso(2025, 9, 1), end_date |-> Iso(2025, 11, 30)] >>

\* io._generate_segments: one "<index>-main" segment per project row.
GenerateSegments(projects) ==
    [i \in 1..Len(projects) |->
        [segment_id |-> projects[i].id \o "-main", project_id |-> projects[i].id,
         label |-> "main", start_date |-> projects[i].start_date,
         end_date |-> projects[i].end_date]]

\* -------------------------------------------------------------------- heap

\* The reference a new object gets: one no live object of this step holds.
NewRef(h) == CHOOSE n \in 1..(Cardinality(DOMAIN h) + 1) : n \notin DOMAIN h

\* df.copy(): a new object with the same rows. Returns the heap and the reference.
CopyDf(h, r) ==
    LET n == NewRef(h)
    IN  [heap |-> h @@ (n :> h[r]), ref |-> n]

\* A new DataFrame object holding rows.
NewDf(h, rows) ==
    LET n == NewRef(h)
    IN  [heap |-> h @@ (n :> rows), ref |-> n]

\* Mutant: a deque without maxlen.
DequeAppendUnbounded(q, x) == Append(q, x)

\* Mutant: a deque one entry too short (maxlen = HISTORY_LIMIT - 1).
DequeAppendShort(q, x) ==
    IF Len(q) >= HISTORY_LIMIT - 1 THEN Append(Tail(q), x) ELSE Append(q, x)

\* Mutant: a full deque drops its rightmost entry, the newest, to make room.
DequeAppendDropNewest(q, x) ==
    IF Len(q) >= HISTORY_LIMIT THEN Append(SubSeq(q, 1, Len(q) - 1), x) ELSE Append(q, x)

\* deque(maxlen=HISTORY_LIMIT).append: a full deque drops its leftmost entry.
DequeAppend(q, x) ==
    IF Len(q) >= HISTORY_LIMIT THEN Append(Tail(q), x) ELSE Append(q, x)

\* deque(maxlen=HISTORY_LIMIT).appendleft: a full deque drops its rightmost entry.
\* Mutant: future holds one entry less than history.
DequeAppendLeftShort(q, x) ==
    IF Len(q) >= HISTORY_LIMIT - 1 THEN <<x>> \o SubSeq(q, 1, HISTORY_LIMIT - 2) ELSE <<x>> \o q

DequeAppendLeft(q, x) ==
    IF Len(q) >= HISTORY_LIMIT THEN <<x>> \o SubSeq(q, 1, Len(q) - 1) ELSE <<x>> \o q

\* --------------------------------------------------------------- variables

VARIABLES
    heap,           \* reference -> rows of the DataFrame object
    projects_df,    \* AppState.projects_df (a reference)
    segments_df,    \* AppState.segments_df (a reference)
    history,        \* AppState.history: sequence of <<projects ref, segments ref>>
    future,         \* AppState.future
    notice,         \* the notice the last operation issued, or None
    workload,       \* which inputs the exploration draws: "mixed", "serial", "trip", "app",
                    \* or the function called: "clip", "dates", "gantt"
    ops,            \* operations done so far in the "mixed" workload
    log,            \* the last operations: what was called, with what, on which tables
    pre,            \* the contents of the state the last operation started from
    run,            \* whether the calls so far are n update_data then u undo, and n, u
    trip,           \* the run of undo calls and the redo calls after it, and where it began
    uploaded,       \* the file the sidebar's uploader holds: <<>> or <<file>>
    active_segment, \* st.session_state["active_segment"]
    filters,        \* AppState.filters: the search text
    rendered,       \* whether the last pass drew the page below the sidebar
    call,           \* the arguments of a clip_segment_to_range call
    result          \* what the call returned or raised; Pending before it has

vars ==
    <<heap, projects_df, segments_df, history, future, notice, workload, ops, log, pre, run,
      trip, uploaded, active_segment, filters, rendered, call, result>>

\* The widgets and the session entries of the page.
page == <<uploaded, active_segment, filters, rendered>>

\* The call of the date helper under test.
clip == <<call, result>>

\* The session state as one value, for the functions of utils/state.py.
World ==
    [heap |-> heap, projects_df |-> projects_df, segments_df |-> segments_df,
     history |-> history, future |-> future, notice |-> None]

\* The references the state holds, in the order the state reaches them.
RefOrder(w) ==
    LET flat(q) == [i \in 1..(2 * Len(q)) |-> q[(i + 1) \div 2][2 - (i % 2)]]
    IN  <<w.projects_df, w.segments_df>> \o flat(w.history) \o flat(w.future)

\* Objects nothing refers to any more are freed (reference counting). An object's
\* address carries no meaning: the live objects are numbered in RefOrder.
Collect(w) ==
    LET order == RefOrder(w) \o <<>>
        n == Len(order)
        distinct == Cardinality({order[i] : i \in 1..n}) = n
        isFirst == [i \in 1..n |-> \A j \in 1..(i - 1) : order[j] # order[i]] \o <<>>
        count == [i \in 1..n |-> Cardinality({j \in 1..i : isFirst[j]})] \o <<>>
        at == IF distinct THEN [i \in 1..n |-> i]
              ELSE [i \in 1..n |->
                       count[CHOOSE j \in 1..i : order[j] = order[i] /\ isFirst[j]]] \o <<>>
        h == Len(w.history)
    IN  [w EXCEPT
            !.heap = IF distinct THEN [k \in 1..n |-> w.heap[order[k]]]
                     ELSE [k \in 1..count[n] |->
                              w.heap[order[CHOOSE j \in 1..n : isFirst[j] /\ count[j] = k]]],
            !.projects_df = at[1],
            !.segments_df = at[2],
            !.history = [i \in 1..h |-> <<at[2 * i + 1], at[2 * i + 2]>>],
            !.future = [i \in 1..Len(w.future) |->
                           <<at[2 * (h + i) + 1], at[2 * (h + i) + 2]>>]]

\* ---------------------------------------------------------- utils/state.py

\* Mutant: push_history without future.clear().
PushHistoryKeepFuture(w) ==
    LET p == CopyDf(w.heap, w.projects_df)
        s == CopyDf(p.heap, w.segments_df)
    IN  [w EXCEPT !.heap = s.heap,
                  !.history = DequeAppend(w.history, <<p.ref, s.ref>>)]

\* Mutant: push_history appends the tables themselves, not copies of them.
PushHistoryNoCopy(w) ==
    [w EXCEPT !.history = DequeAppend(w.history, <<w.projects_df, w.segments_df>>),
              !.future = <<>>]

PushHistory(w) ==
    LET p == CopyDf(w.heap, w.projects_df)
        s == CopyDf(p.heap, w.segments_df)
    IN  [w EXCEPT !.heap = s.heap,
                  !.history = DequeAppend(w.history, <<p.ref, s.ref>>),
                  !.future = <<>>]

\* Mutant: undo takes the oldest entry of history (popleft) instead of the newest.
UndoOldest(w) ==
    IF w.history = <<>>
    THEN [w EXCEPT !.notice = "nothing to undo"]
    ELSE LET p == CopyDf(w.heap, w.projects_df)
             s == CopyDf(p.heap, w.segments_df)
             prev == w.history[1]
         IN  [w EXCEPT !.heap = s.heap,
                       !.future = DequeAppendLeft(w.future, <<p.ref, s.ref>>),
                       !.history = Tail(w.history),
                       !.projects_df = prev[1],
                       !.segments_df = prev[2]]

Undo(w) ==
    IF w.history = <<>>
    THEN [w EXCEPT !.notice = "nothing to undo"]
    ELSE LET p == CopyDf(w.heap, w.projects_df)
             s == CopyDf(p.heap, w.segments_df)
             prev == w.history[Len(w.history)]
         IN  [w EXCEPT !.heap = s.heap,
                       !.future = DequeAppendLeft(w.future, <<p.ref, s.ref>>),
                       !.history = SubSeq(w.history, 1, Len(w.history) - 1),
                       !.projects_df = prev[1],
                       !.segments_df = prev[2]]

\* Mutant: redo without its guard: the append happens, then popleft raises.
RedoUnguarded(w) ==
    LET p == CopyDf(w.heap, w.projects_df)
        s == CopyDf(p.heap, w.segments_df)
        pushed == [w EXCEPT !.heap = s.heap,
                            !.history = DequeAppend(w.history, <<p.ref, s.ref>>)]
    IN  IF w.future = <<>>
        THEN [pushed EXCEPT !.notice = "IndexError"]
        ELSE [pushed EXCEPT !.future = Tail(w.future),
                            !.projects_df = w.future[1][1],
                            !.segments_df = w.future[1][2]]

Redo(w) ==
    IF w.future = <<>>
    THEN [w EXCEPT !.notice = "nothing to redo"]
    ELSE LET p == CopyDf(w.heap, w.projects_df)
             s == CopyDf(p.heap, w.segments_df)
             next == w.future[1]
         IN  [w EXCEPT !.heap = s.heap,
                       !.history = DequeAppend(w.history, <<p.ref, s.ref>>),
                       !.future = Tail(w.future),
                       !.projects_df = next[1],
                       !.segments_df = next[2]]

\* update_data(state, projects_df, segments_df): the caller's objects are new ones.
UpdateData(w, projects, segments) ==
    LET pushed == PushHistory(w)
        p == NewDf(pushed.heap, projects)
        s == NewDf(p.heap, segments)
    IN  [pushed EXCEPT !.heap = s.heap, !.projects_df = p.ref, !.segments_df = s.ref]

\* ------------------------------------------------------ components/editor.py

\* _get_segment_row: the rows of the segments table with this segment_id.
Matches(rows, key, value) == {i \in 1..Len(rows) : rows[i][key] = value}

First(S) == CHOOSE i \in S : \A j \in S : i <= j

\* df.loc[mask, columns] = values on the segments object: every holder sees it.
AssignSegment(rows, segment_id, form) ==
    [i \in 1..Len(rows) |->
        IF rows[i].segment_id = segment_id
        THEN [rows[i] EXCEPT !.label = form.label,
                             !.start_date = Strftime(form.start_date),
                             !.end_date = Strftime(form.end_date)]
        ELSE rows[i]]

AssignProject(rows, id, form) ==
    [i \in 1..Len(rows) |->
        IF rows[i].id = id
        THEN [rows[i] EXCEPT !.progress = form.progress, !.note = form.note]
        ELSE rows[i]]

\* render_editor with the form submitted.
RenderEditor(w, selected_segment_id, form) ==
    LET segments == w.heap[w.segments_df]
        projects == w.heap[w.projects_df]
        hits == Matches(segments, "segment_id", selected_segment_id)
    IN  IF selected_segment_id = None
        THEN [w EXCEPT !.notice = "click a bar to edit"]
        ELSE IF hits = {}
        THEN [w EXCEPT !.notice = "segment not found"]
        ELSE LET row == segments[First(hits)]
                 owners == Matches(projects, "id", row.project_id)
             IN  IF owners = {}
                 THEN [w EXCEPT !.notice = "IndexError"]
                 ELSE IF DateLT(form.end_date, form.start_date)
                 THEN [w EXCEPT !.notice = "end before start"]
                 ELSE LET project == projects[First(owners)]
                          pushed == PushHistory(w)
                      IN  [pushed EXCEPT
                              !.heap = [pushed.heap EXCEPT
                                  ![w.segments_df] =
                                      AssignSegment(@, selected_segment_id, form),
                                  ![w.projects_df] =
                                      AssignProject(@, project.id, form)],
                              !.notice = "updated"]

\* What the form is submitted with: the widgets at their defaults, the segment's
\* widgets changed, the project's widgets changed, or an end before the start.
Forms(w, selected_segment_id) ==
    LET segments == w.heap[w.segments_df]
        projects == w.heap[w.projects_df]
        hits == Matches(segments, "segment_id", selected_segment_id)
        row == segments[First(hits)]
        owners == Matches(projects, "id", row.project_id)
        project == projects[First(owners)]
        defaults == [label |-> row.label,
                     start_date |-> FromIso(row.start_date),
                     end_date |-> FromIso(row.end_date),
                     progress |-> project.progress,
                     note |-> project.note]
    IN  IF hits = {} \/ owners = {}
        THEN {}
        ELSE {defaults,
              [defaults EXCEPT !.label = "edited", !.start_date = Date(2025, 8, 1)],
              [defaults EXCEPT !.progress = ProgressOptions[3], !.note = "memo"],
              [defaults EXCEPT !.start_date = Date(2025, 8, 1),
                               !.end_date = Date(2025, 7, 15)]}

\* A submission whose form is not on screen: the selection is stale or empty.
BlankForm ==
    [label |-> "", start_date |-> Date(2025, 8, 1), end_date |-> Date(2025, 8, 1),
     progress |-> ProgressOptions[1], note |-> ""]

\* ------------------------------------------------------------- observation

\* The rows an entry of history or future refers to.
Snapshot(w, entry) == <<w.heap[entry[1]], w.heap[entry[2]]>>

\* The contents of the state: the tables and the two stacks, by value.
View(w) ==
    [current |-> <<w.heap[w.projects_df], w.heap[w.segments_df]>>,
     history |-> [i \in 1..Len(w.history) |-> Snapshot(w, w.history[i])],
     future |-> [i \in 1..Len(w.future) |-> Snapshot(w, w.future[i])]]

\* log keeps the last three calls.
Logged(op, arg, outcome) ==
    LET entry == [op |-> op, arg |-> arg, was |-> View(World).current,
                  notice |-> outcome]
        all == Append(log, entry)
    IN  IF Len(all) > 3 THEN Tail(all) ELSE all

NoRun == [updates |-> 0, undos |-> 0, pure |-> FALSE]

\* run follows the calls while they are update_data n times, then undo at most
\* HISTORY_LIMIT + 1 times.
Ran(op) ==
    IF run.pure /\ op = "update_data" /\ run.undos = 0
    THEN [run EXCEPT !.updates = @ + 1]
    ELSE IF run.pure /\ op = "undo" /\ run.undos <= HISTORY_LIMIT
    THEN [run EXCEPT !.undos = @ + 1]
    ELSE NoRun

\* trip follows, in the "trip" workload, the latest run of k undo calls that each
\* popped a snapshot and the redo calls after it, up to k of them; base is the
\* state the first of these undo calls started from.
NoView == [current |-> <<>>, history |-> <<>>, future |-> <<>>]
Idle == [phase |-> "idle", base |-> NoView, undos |-> 0, redos |-> 0]
Over == [phase |-> "over", base |-> NoView, undos |-> 0, redos |-> 0]

Tripped(op) ==
    IF workload # "trip" \/ op \notin {"undo", "redo"} THEN trip
    ELSE IF op = "undo" /\ history # <<>>
    THEN IF trip.phase = "run" /\ trip.redos = 0
         THEN [trip EXCEPT !.undos = @ + 1]
         ELSE [phase |-> "run", base |-> View(World), undos |-> 1, redos |-> 0]
    ELSE IF op = "redo" /\ future # <<>> /\ trip.phase = "run" /\ trip.redos < trip.undos
    THEN [trip EXCEPT !.redos = @ + 1]
    ELSE Over

\* The state the call leaves, and its record.
Commit(w, op, arg) ==
    LET kept == Collect(w)
    IN  /\ heap' = kept.heap
        /\ projects_df' = kept.projects_df
        /\ segments_df' = kept.segments_df
        /\ history' = kept.history
        /\ future' = kept.future
        /\ notice' = kept.notice
        /\ log' = Logged(op, arg, kept.notice)
        /\ pre' = View(World)
        /\ run' = Ran(op)
        /\ trip' = Tripped(op)

\* ------------------------------------------------------------------ actions

\* init_state: the session starts with the initial tables and empty stacks.
InitState ==
    /\ heap = (1 :> InitialProjects) @@ (2 :> InitialSegments)
    /\ projects_df = 1
    /\ segments_df = 2
    /\ history = <<>>
    /\ future = <<>>
    /\ notice = None
    /\ ops = 0
    /\ log = <<>>
    /\ pre = [current |-> <<InitialProjects, InitialSegments>>,
              history |-> <<>>, future |-> <<>>]
    /\ run = [updates |-> 0, undos |-> 0, pure |-> TRUE]
    /\ trip = Idle
    /\ uploaded = <<>>
    /\ active_segment = None
    /\ filters = ""
    /\ rendered = TRUE

\* The result of a call that has not returned.
Pending == [kind |-> "pending", start |-> None, end |-> None]

NoCall ==
    /\ call = None
    /\ result = Pending

Init ==
    /\ InitState
    /\ NoCall
    /\ workload \in {"mixed", "serial"}

\* The budget of the workload: "mixed" counts every call, "serial" only bounds the files.
Budget ==
    /\ workload = "mixed" => ops < MaxOps
    /\ ops' = IF workload = "mixed" THEN ops + 1 ELSE ops
    /\ UNCHANGED <<workload, page, clip>>

\* The file the "serial" workload imports next: the one after the current table's.
NextFile == heap[projects_df][1].name + 1

DoUpdateData ==
    \E k \in IF workload = "mixed" THEN 1..MaxFile
              ELSE {n \in {NextFile} : n <= MaxSerial} :
        /\ Budget
        /\ workload = "trip" => trip = Idle
        /\ Commit(UpdateData(World, ImportedProjects(k),
                             GenerateSegments(ImportedProjects(k))),
                  "update_data",
                  <<ImportedProjects(k), GenerateSegments(ImportedProjects(k))>>)

DoEditorSave ==
    /\ workload = "mixed"
    /\ \E sel \in {"0-main", "0-extra-1", None} :
       \E form \in IF Forms(World, sel) = {} THEN {BlankForm} ELSE Forms(World, sel) :
        /\ Budget
        /\ Commit(RenderEditor(World, sel, form), "save", <<sel, form>>)

DoUndo ==
    /\ Budget
    /\ Commit(Undo(World), "undo", <<>>)

DoRedo ==
    /\ Budget
    /\ Commit(Redo(World), "redo", <<>>)

Next == DoUpdateData \/ DoEditorSave \/ DoUndo \/ DoRedo

Spec == Init /\ [][Next]_vars

\* The same operations with one more workload, "trip": successive imports, then
\* only undo and redo.
InitTrip ==
    /\ InitState
    /\ NoCall
    /\ workload \in {"mixed", "serial", "trip"}

SpecTrip == InitTrip /\ [][Next]_vars

\* ------------------------------------------------ app.py: one render pass

\* What the uploader can hold: a file the import reads, one pandas cannot parse,
\* one whose columns are not the required ones and are not all mapped.
Files ==
    [kind : {"ok"}, k : 1..MaxFile]
        \cup {[kind |-> "unreadable", k |-> 0], [kind |-> "unmapped", k |-> 0]}

\* render_sidebar: with a file in the uploader the import runs, in every pass.
\* stop: st.stop() ended the script in the sidebar.
RenderSidebar(w, up) ==
    IF up = <<>>
    THEN [w |-> w, stop |-> FALSE]
    ELSE IF up[1].kind = "unreadable"
    THEN [w |-> [w EXCEPT !.notice = "import failed"], stop |-> FALSE]
    ELSE IF up[1].kind = "unmapped"
    THEN [w |-> [w EXCEPT !.notice = "map every column"], stop |-> TRUE]
    ELSE [w |-> [UpdateData(w, ImportedProjects(up[1].k),
                            GenerateSegments(ImportedProjects(up[1].k)))
                    EXCEPT !.notice = "import done"],
          stop |-> FALSE]

\* The page below the sidebar: the undo button, the redo button, the editor.
RenderMain(w, trigger, selected_segment_id, form) ==
    LET undone == IF trigger = "undo" THEN Undo(w) ELSE w
        redone == IF trigger = "redo" THEN Redo(undone) ELSE undone
    IN  IF trigger = "save"
        THEN RenderEditor(redone, selected_segment_id, form)
        ELSE redone

\* One run of the script, top to bottom, for the widget that triggered it.
Script(w, up, trigger, selected_segment_id, form) ==
    LET side == RenderSidebar(w, up)
    IN  IF side.stop
        THEN side
        ELSE [w |-> RenderMain(side.w, trigger, selected_segment_id, form),
              stop |-> FALSE]

InitApp ==
    /\ InitState
    /\ NoCall
    /\ workload = "app"

\* A pass: the run of the script an interaction triggers, and what it leaves.
Pass(up, trigger, form, op, arg) ==
    LET ran == Script(World, up, trigger, active_segment, form)
    IN  /\ workload = "app"
        /\ ops < MaxPasses
        /\ ops' = ops + 1
        /\ uploaded' = up
        /\ rendered' = ~ran.stop
        /\ Commit(ran.w, op, arg)
        /\ UNCHANGED <<workload, clip>>

\* The user puts a file into the uploader.
PassUpload ==
    \E f \in Files :
        /\ uploaded # <<f>>
        /\ Pass(<<f>>, "none", BlankForm, "upload", f)
        /\ UNCHANGED <<active_segment, filters>>

\* The user removes the file from the uploader.
PassClear ==
    /\ uploaded # <<>>
    /\ Pass(<<>>, "none", BlankForm, "clear", <<>>)
    /\ UNCHANGED <<active_segment, filters>>

\* The user changes the search text (any filter or display setting).
PassFilter ==
    \E text \in {"", "bridge"} :
        /\ text # filters
        /\ filters' = text
        /\ Pass(uploaded, "none", BlankForm, "filter", text)
        /\ UNCHANGED active_segment

PassUndo ==
    /\ rendered
    /\ Pass(uploaded, "undo", BlankForm, "undo", <<>>)
    /\ UNCHANGED <<active_segment, filters>>

PassRedo ==
    /\ rendered
    /\ Pass(uploaded, "redo", BlankForm, "redo", <<>>)
    /\ UNCHANGED <<active_segment, filters>>

\* The user submits the editor's form as the last pass drew it.
PassSave ==
    /\ rendered
    /\ \E form \in Forms(World, active_segment) :
        /\ Pass(uploaded, "save", form, "save", <<active_segment, form>>)
        /\ UNCHANGED <<active_segment, filters>>

\* The user clicks a bar: the script runs, stores the segment and reruns.
PassClick ==
    /\ rendered
    /\ workload = "app"
    /\ ops < MaxPasses
    /\ \E i \in 1..Len(heap[segments_df]) :
        LET first == Script(World, uploaded, "none", active_segment, BlankForm)
            again == Script(first.w, uploaded, "none",
                            heap[segments_df][i].segment_id, BlankForm)
        IN  /\ active_segment' = heap[segments_df][i].segment_id
            /\ rendered' = ~again.stop
            /\ Commit(again.w, "click", heap[segments_df][i].segment_id)
    /\ ops' = ops + 1
    /\ UNCHANGED <<workload, clip, uploaded, filters>>

NextApp ==
    \/ PassUpload
    \/ PassClear
    \/ PassFilter
    \/ PassUndo
    \/ PassRedo
    \/ PassSave
    \/ PassClick

SpecApp == InitApp /\ [][NextApp]_vars

\* ------------------------------------- utils/dates.py: clip_segment_to_range

\* A datetime: a date and the hour of its time of day.
DateTime(d, h) == [year |-> d.year, month |-> d.month, day |-> d.day, hour |-> h]

\* datetime.combine(d, datetime.min.time())
Midnight(d) == DateTime(d, 0)

\* datetime < datetime
DateTimeLT(a, b) ==
    \/ DateLT(Date(a.year, a.month, a.day), Date(b.year, b.month, b.day))
    \/ a.year = b.year /\ a.month = b.month /\ a.day = b.day /\ a.hour < b.hour

\* to_date: a date as it is, a datetime without its time, a string parsed.
ToDate(value) ==
    IF value.kind = "date" THEN Date(value.year, value.month, value.day)
    ELSE IF value.kind = "datetime" THEN Date(value.year, value.month, value.day)
    ELSE FromIso(Iso(value.year, value.month, value.day))

\* Mutant: the range check comes after the overlap test.
ClipOverlapFirst(start, end, view_start, view_end) ==
    LET start_dt == Midnight(ToDate(start))
        end_dt == Midnight(ToDate(end))
        view_start_dt == Midnight(ToDate(view_start))
        view_end_dt == Midnight(ToDate(view_end))
    IN  IF DateTimeLT(end_dt, view_start_dt) \/ DateTimeLT(view_end_dt, start_dt)
        THEN [kind |-> "None", start |-> None, end |-> None]
        ELSE IF DateTimeLT(end_dt, start_dt)
        THEN [kind |-> "ValueError", start |-> None, end |-> None]
        ELSE [kind |-> "ClippedSegment",
              start |-> IF DateTimeLT(start_dt, view_start_dt)
                        THEN view_start_dt ELSE start_dt,
              end |-> IF DateTimeLT(view_end_dt, end_dt) THEN view_end_dt ELSE end_dt]

\* Mutant: the overlap test takes a segment that touches the window for outside.
ClipTouchingIsOutside(start, end, view_start, view_end) ==
    LET start_dt == Midnight(ToDate(start))
        end_dt == Midnight(ToDate(end))
        view_start_dt == Midnight(ToDate(view_start))
        view_end_dt == Midnight(ToDate(view_end))
    IN  IF DateTimeLT(end_dt, start_dt)
        THEN [kind |-> "ValueError", start |-> None, end |-> None]
        ELSE IF ~DateTimeLT(view_start_dt, end_dt) \/ ~DateTimeLT(start_dt, view_end_dt)
        THEN [kind |-> "None", start |-> None, end |-> None]
        ELSE [kind |-> "ClippedSegment",
              start |-> IF DateTimeLT(start_dt, view_start_dt)
                        THEN view_start_dt ELSE start_dt,
              end |-> IF DateTimeLT(view_end_dt, end_dt) THEN view_end_dt ELSE end_dt]

\* clip_segment_to_range: what it returns or raises (project_id and label pass
\* through unchanged).
ClipSegmentToRange(start, end, view_start, view_end) ==
    LET start_dt == Midnight(ToDate(start))
        end_dt == Midnight(ToDate(end))
        view_start_dt == Midnight(ToDate(view_start))
        view_end_dt == Midnight(ToDate(view_end))
    IN  IF DateTimeLT(end_dt, start_dt)
        THEN [kind |-> "ValueError", start |-> None, end |-> None]
        ELSE IF DateTimeLT(end_dt, view_start_dt) \/ DateTimeLT(view_end_dt, start_dt)
        THEN [kind |-> "None", start |-> None, end |-> None]
        ELSE [kind |-> "ClippedSegment",
              start |-> IF DateTimeLT(start_dt, view_start_dt)
                        THEN view_start_dt ELSE start_dt,
              end |-> IF DateTimeLT(view_end_dt, end_dt) THEN view_end_dt ELSE end_dt]

\* The days the calls draw from: the end of 2025 and the first days of 2026.
Days == {Date(2025, 12, d) : d \in 30..31} \cup {Date(2026, 1, d) : d \in 1..MaxDay}

\* A day as the callers pass it: an ISO string (the tables' columns), a date, or
\* a datetime (the view window of the sidebar is at midnight).
DateLikes(kinds, hours) ==
    {[kind |-> k, year |-> d.year, month |-> d.month, day |-> d.day, hour |-> h] :
        k \in kinds, d \in Days, h \in hours}

SegmentDates == DateLikes({"str", "date"}, {0}) \cup DateLikes({"datetime"}, {9})

ViewDates == DateLikes({"str", "datetime"}, {0})

InitClip ==
    /\ InitState
    /\ workload = "clip"
    /\ call \in [start : SegmentDates, end : SegmentDates,
                  view_start : ViewDates, view_end : ViewDates]
    /\ result = Pending

DoClip ==
    /\ workload = "clip"
    /\ result = Pending
    /\ result' = ClipSegmentToRange(call.start, call.end, call.view_start, call.view_end)
    /\ UNCHANGED <<heap, projects_df, segments_df, history, future, notice, workload,
                   ops, log, pre, run, trip, page, call>>

NextClip == DoClip

SpecClip == InitClip /\ [][NextClip]_vars

\* ------------------------------ utils/dates.py: month_range, make_tickvals

\* The calendar of datetime.date: the length of a month.
IsLeap(y) == (y % 4 = 0 /\ y % 100 # 0) \/ y % 400 = 0

DaysInMonth(y, m) ==
    IF m = 2 THEN (IF IsLeap(y) THEN 29 ELSE 28)
    ELSE IF m \in {4, 6, 9, 11} THEN 30 ELSE 31

\* date + timedelta(days=1) and date - timedelta(days=1)
NextDay(d) ==
    IF d.day < DaysInMonth(d.year, d.month) THEN Date(d.year, d.month, d.day + 1)
    ELSE IF d.month < 12 THEN Date(d.year, d.month + 1, 1)
    ELSE Date(d.year + 1, 1, 1)

PrevDay(d) ==
    IF d.day > 1 THEN Date(d.year, d.month, d.day - 1)
    ELSE IF d.month > 1 THEN Date(d.year, d.month - 1, DaysInMonth(d.year, d.month - 1))
    ELSE Date(d.year - 1, 12, 31)

\* date + timedelta(days=n)
RECURSIVE AddDays(_, _)
AddDays(d, n) == IF n = 0 THEN d ELSE NextDay(AddDays(d, n - 1))

\* date.replace(day=day)
Replace(d, day) == Date(d.year, d.month, day)

\* min(a, b) of two dates: the first one unless the second is smaller.
DateMin(a, b) == IF DateLT(b, a) THEN b ELSE a

\* datetime.date()
DatePart(dt) == Date(dt.year, dt.month, dt.day)

\* The loop of month_range: one (month_start, month_end) per pass while
\* current <= last.
RECURSIVE MonthRangeFrom(_, _)
MonthRangeFrom(current, last) ==
    IF DateLE(current, last)
    THEN LET next_month == Replace(AddDays(Replace(current, 28), 4), 1)
             month_end == DateMin(PrevDay(next_month), last)
         IN  <<<<current, month_end>>>> \o MonthRangeFrom(next_month, last)
    ELSE <<>>

\* month_range: the buckets from the first day of start's month up to end.
MonthRange(start, end) == MonthRangeFrom(Replace(ToDate(start), 1), ToDate(end))

\* The body of make_tickvals' inner loop for one day of (6, 12, 18, 24).
TickOn(month_start, month_end, day) ==
    IF day <= month_end.day
    THEN LET tick_date == Replace(month_start, day)
         IN  IF DateLE(month_start, tick_date) /\ DateLE(tick_date, month_end)
             THEN <<Midnight(tick_date)>> ELSE <<>>
    ELSE <<>>

\* The ticks make_tickvals appends for one bucket: the days 6, 12, 18 and 24 that
\* the bucket has, then the bucket's last day.
BucketTicks(month_start, month_end) ==
    TickOn(month_start, month_end, 6) \o TickOn(month_start, month_end, 12)
        \o TickOn(month_start, month_end, 18) \o TickOn(month_start, month_end, 24)
        \o <<Midnight(month_end)>>

\* The outer loop of make_tickvals over the buckets.
RECURSIVE AllTicks(_)
AllTicks(months) ==
    IF months = <<>> THEN <<>>
    ELSE BucketTicks(Head(months)[1], Head(months)[2]) \o AllTicks(Tail(months))

\* Mutant: the ticks are returned without the final filter on [start, end].
MakeTickvalsUnfiltered(start, end) == AllTicks(MonthRange(start, end))

\* make_tickvals: the ticks of every bucket, those within [start, end] kept.
MakeTickvals(start, end) ==
    LET Keep(tick) == DateLE(ToDate(start), DatePart(tick)) /\ DateLE(DatePart(tick), ToDate(end))
    IN  SelectSeq(AllTicks(MonthRange(start, end)), Keep)

\* The calendar of 2023 and 2024, a common year and a leap year.
Calendar ==
    {d \in [year : 2023..2024, month : 1..12, day : 1..31] :
        d.day <= DaysInMonth(d.year, d.month)}

\* The days of the year before month m, and the number of a day counted from the
\* first day of 2023.
RECURSIVE DaysBeforeMonth(_, _)
DaysBeforeMonth(y, m) ==
    IF m = 1 THEN 0 ELSE DaysBeforeMonth(y, m - 1) + DaysInMonth(y, m - 1)

Ordinal(d) == (d.year - 2023) * 365 + DaysBeforeMonth(d.year, d.month) + d.day

\* The days the calls of month_range and make_tickvals draw from: a run of days
\* from the end of 2023 into March 2024 (a year's end and a leap February), and a
\* shorter run across the end of February 2023.
TickDays ==
    {d \in Calendar : Ordinal(d) - Ordinal(Date(2023, 12, 23)) \in 0..MaxSpan}
        \cup {d \in Calendar : Ordinal(d) - Ordinal(Date(2023, 2, 22)) \in 0..(MaxSpan \div 7)}

\* A day as a caller passes it: a date (the tests) or a datetime at midnight (the
\* view window build_gantt_figure passes).
AsDateLike(kind, d) ==
    [kind |-> kind, year |-> d.year, month |-> d.month, day |-> d.day, hour |-> 0]

InitDates ==
    /\ InitState
    /\ workload = "dates"
    /\ \E kind \in {"date", "datetime"} :
           call \in {[start |-> AsDateLike(kind, a), end |-> AsDateLike(kind, b)] :
                        a \in TickDays, b \in TickDays}
    /\ result = Pending

DoMonthRange ==
    /\ workload = "dates"
    /\ result = Pending
    /\ result' = [kind |-> "months", value |-> MonthRange(call.start, call.end)]
    /\ UNCHANGED <<heap, projects_df, segments_df, history, future, notice, workload,
                   ops, log, pre, run, trip, page, call>>

DoMakeTickvals ==
    /\ workload = "dates"
    /\ result = Pending
    /\ result' = [kind |-> "ticks", value |-> MakeTickvals(call.start, call.end)]
    /\ UNCHANGED <<heap, projects_df, segments_df, history, future, notice, workload,
                   ops, log, pre, run, trip, page, call>>

NextDates == DoMonthRange \/ DoMakeTickvals

SpecDates == InitDates /\ [][NextDates]_vars

\* ----------------------------- components/gantt.py: build_gantt_dataframe

DEFAULT_COLOR == "#f97316"

\* A missing cell of a text column, of a column of date strings, and a missing
\* datetime.
NaN == "NaN"
NaNDate == <<>>
NaT == [nat |-> TRUE]

\* One row of the merge: the segment's columns, its start_date and end_date renamed
\* by the left suffix "_segment", and the project's columns under their own names
\* (the right suffix is empty).
MergeRow(s, p) ==
    [segment_id |-> s.segment_id, project_id |-> s.project_id, label |-> s.label,
     start_date_segment |-> s.start_date, end_date_segment |-> s.end_date,
     id |-> p.id, name |-> p.name, color |-> p.color,
     start_date |-> p.start_date, end_date |-> p.end_date]

\* The project columns of a segment that matches no project.
MissingProject ==
    [id |-> NaN, name |-> NaN, color |-> NaN, start_date |-> NaNDate, end_date |-> NaNDate]

\* segments_df.merge(projects_df, left_on="project_id", right_on="id", how="left"):
\* the segments in their order, each with every project of its project_id, or with
\* missing cells when there is none.
RECURSIVE Merge(_, _)
Merge(segments, projects) ==
    IF segments = <<>> THEN <<>>
    ELSE LET s == Head(segments)
             matches == SelectSeq(projects, LAMBDA p : p.id = s.project_id)
             joined == IF matches = <<>> THEN <<MergeRow(s, MissingProject)>>
                       ELSE [j \in 1..Len(matches) |-> MergeRow(s, matches[j])]
         IN  joined \o Merge(Tail(segments), projects)

\* Series.fillna(value)
FillNa(cell, value) == IF cell = NaN THEN value ELSE cell

\* pd.to_datetime of a cell: the day at midnight, NaT for a missing cell.
ToDatetime(cell) == IF cell = NaNDate THEN NaT ELSE Midnight(FromIso(cell))

\* Series.clip(lower=...) and Series.clip(upper=...) of one value: NaT stays NaT.
ClipLower(value, lower) ==
    IF value = NaT THEN NaT ELSE IF DateTimeLT(value, lower) THEN lower ELSE value

ClipUpper(value, upper) ==
    IF value = NaT THEN NaT ELSE IF DateTimeLT(upper, value) THEN upper ELSE value

\* a >= b and a <= b on datetimes: False when a is NaT.
DateTimeGE(a, b) == a # NaT /\ ~DateTimeLT(a, b)
DateTimeLE(a, b) == a # NaT /\ ~DateTimeLT(b, a)

\* The order of the strings the id columns hold.
IdOrder == <<"0", "0-extra-1", "0-main", "1", "1-main">>
StrLT(a, b) ==
    (CHOOSE i \in DOMAIN IdOrder : IdOrder[i] = a) < (CHOOSE i \in DOMAIN IdOrder : IdOrder[i] = b)

\* The sort keys ["project_id", "start"] of two rows compared.
KeyLT(a, b) ==
    \/ StrLT(a.project_id, b.project_id)
    \/ a.project_id = b.project_id /\ DateTimeLT(a.start, b.start)

\* sort_values(["project_id", "start"]): rows with equal keys keep their order.
RECURSIVE SortValues(_)
SortValues(rows) ==
    IF rows = <<>> THEN <<>>
    ELSE LET n == Len(rows)
             sorted == SortValues(SubSeq(rows, 1, n - 1))
             before == SelectSeq(sorted, LAMBDA r : ~KeyLT(rows[n], r))
             after == SelectSeq(sorted, LAMBDA r : KeyLT(rows[n], r))
         IN  before \o <<rows[n]>> \o after

\* groupby("project_id").cumcount(): how many rows of the same project come before.
CumCount(rows, i) ==
    Cardinality({j \in 1..(i - 1) : rows[j].project_id = rows[i].project_id})

\* The frame from its merged rows on: dates read from the given columns, clipped,
\* filtered on the view window, sorted, numbered and labelled.
Assemble(merged, start_of, end_of, view_start, view_end) ==
    LET dated == [i \in DOMAIN merged |->
                    [segment_id |-> merged[i].segment_id,
                     project_id |-> merged[i].project_id,
                     label |-> merged[i].label,
                     name |-> merged[i].name,
                     color |-> FillNa(merged[i].color, DEFAULT_COLOR),
                     start |-> ClipLower(ToDatetime(merged[i][start_of]), view_start),
                     end |-> ClipUpper(ToDatetime(merged[i][end_of]), view_end)]]
        kept == SelectSeq(dated, LAMBDA r : DateTimeGE(r.end, view_start)
                                             /\ DateTimeLE(r.start, view_end))
        sorted == SortValues(kept)
    IN  [i \in DOMAIN sorted |->
            [segment_id |-> sorted[i].segment_id,
             project_id |-> sorted[i].project_id,
             label |-> sorted[i].label,
             name |-> sorted[i].name,
             color |-> sorted[i].color,
             start |-> sorted[i].start,
             end |-> sorted[i].end,
             row |-> CumCount(sorted, i),
             display_name |-> IF sorted[i].name = NaN THEN NaN
                              ELSE sorted[i].name \o " / " \o sorted[i].label]]

\* Mutant: the dates are read from the segment's own columns.
BuildGanttOwnDates(projects, segments, view_start, view_end) ==
    Assemble(Merge(segments, projects), "start_date_segment", "end_date_segment",
             view_start, view_end)

\* build_gantt_dataframe: the rows of the frame it returns. "start_date" and
\* "end_date" of the merged frame are the project's columns.
BuildGanttDataframe(projects, segments, view_start, view_end) ==
    Assemble(Merge(segments, projects), "start_date", "end_date", view_start, view_end)

\* The days the tables' dates are drawn from; the view window is drawn from Days.
GanttDays == {Date(2025, 12, 31), Date(2026, 1, 1), Date(2026, 1, 2)}

\* A row of the projects table (color is "" where the file has no such column).
ProjectRow(id, name, start, end) ==
    [id |-> id, name |-> name, color |-> "",
     start_date |-> Strftime(start), end_date |-> Strftime(end)]

\* The projects tables: project "0" with one of two spans, alone or with project "1".
ProjectTables ==
    LET spans == {<<Date(2025, 12, 31), Date(2026, 1, 2)>>, <<Date(2026, 1, 1), Date(2026, 1, 1)>>}
        second == ProjectRow("1", "B", Date(2025, 12, 31), Date(2026, 1, 1))
    IN  {<<ProjectRow("0", "A", s[1], s[2])>> : s \in spans}
            \cup {<<ProjectRow("0", "A", s[1], s[2]), second>> : s \in spans}

\* The rows a segments table can hold: the main segment of project "0" or "1", or
\* an extra segment of project "0", with any two of the days as its dates.
SegmentRows ==
    {[segment_id |-> k[1], project_id |-> k[2], label |-> k[3],
      start_date |-> Strftime(a), end_date |-> Strftime(b)] :
        k \in {<<"0-main", "0", "main">>, <<"0-extra-1", "0", "extra">>,
               <<"1-main", "1", "main">>},
        a \in GanttDays, b \in GanttDays}

\* The segments tables: up to two rows with different segment_id, in either order.
SegmentTables ==
    {<<>>} \cup {<<r>> : r \in SegmentRows}
        \cup {q \in SegmentRows \X SegmentRows : q[1].segment_id # q[2].segment_id}

\* The view windows the sidebar returns: two days at midnight, the first not after
\* the second.
ViewWindows ==
    {<<Midnight(w[1]), Midnight(w[2])>> : w \in {q \in Days \X Days : DateLE(q[1], q[2])}}

InitGantt ==
    /\ InitState
    /\ workload = "gantt"
    /\ call \in {[projects |-> p, segments |-> s, view_start |-> v[1], view_end |-> v[2]] :
                    p \in ProjectTables, s \in SegmentTables, v \in ViewWindows}
    /\ result = Pending

DoBuildGantt ==
    /\ workload = "gantt"
    /\ result = Pending
    /\ result' = [kind |-> "frame",
                  value |-> BuildGanttDataframe(call.projects, call.segments,
                                                call.view_start, call.view_end)]
    /\ UNCHANGED <<heap, projects_df, segments_df, history, future, notice, workload,
                   ops, log, pre, run, trip, page, call>>

NextGantt == DoBuildGantt

SpecGantt == InitGantt /\ [][NextGantt]_vars

\* ------------------------------------------------------------------- claims

\* The tables by value.
Current == View(World).current

\* The last call, and the ones before it.
Last == log[Len(log)]
Before(n) == log[Len(log) - n]

\* A call that committed an edit.
IsEdit(entry) ==
    entry.op = "update_data" \/ (entry.op = "save" /\ entry.notice = "updated")

\* The tables the serial workload has after its k-th import (k = 0: the initial ones).
Tables(k) ==
    IF k = 0 THEN <<InitialProjects, InitialSegments>>
    ELSE <<ImportedProjects(k), GenerateSegments(ImportedProjects(k))>>

\* C1: in every reachable state history and future hold at most HISTORY_LIMIT
\* (20) entries each.
C1_StacksBounded ==
    /\ Len(history) <= HISTORY_LIMIT
    /\ Len(future) <= HISTORY_LIMIT

\* C1 witness: an update_data on a full history evicted an entry and left it full.
C1_Witness ==
    /\ Len(log) > 0
    /\ Last.op = "update_data"
    /\ Len(pre.history) = HISTORY_LIMIT
    /\ Len(history) = HISTORY_LIMIT

\* C2: update_data(S1) from tables S0, then undo, leaves the tables exactly S0; a
\* redo directly after that leaves them exactly S1.
C2_RoundTrip ==
    /\ (/\ Len(log) >= 2
        /\ Last.op = "undo"
        /\ Before(1).op = "update_data") => Current = Before(1).was
    /\ (/\ Len(log) >= 3
        /\ Last.op = "redo"
        /\ Before(1).op = "undo"
        /\ Before(2).op = "update_data") => Current = Before(2).arg

\* C2 witness: update_data, undo, redo on a full history, with S1 different from S0.
C2_Witness ==
    /\ Len(log) >= 3
    /\ Last.op = "redo"
    /\ Before(1).op = "undo"
    /\ Before(2).op = "update_data"
    /\ Before(2).was # Before(2).arg
    /\ Len(history) = HISTORY_LIMIT

\* C3: an edit (update_data or a valid editor save) leaves future empty, also after
\* undo calls, and a redo issued next changes neither the tables nor history.
C3_EditClearsFuture ==
    /\ (Len(log) >= 1 /\ IsEdit(Last)) => future = <<>>
    /\ (/\ Len(log) >= 2
        /\ Last.op = "redo"
        /\ IsEdit(Before(1))) =>
            /\ View(World) = pre
            /\ notice = "nothing to redo"

\* C3 witness: an undo that filled future, then an editor save, then a redo.
C3_Witness ==
    /\ Len(log) >= 3
    /\ Before(2).op = "undo"
    /\ Before(2).notice = None
    /\ Before(1).op = "save"
    /\ Before(1).notice = "updated"
    /\ Last.op = "redo"

\* C4: undo with empty history, and redo with empty future, change neither the
\* tables nor history nor future, and only issue their notice.
C4_UnderflowNoOp ==
    /\ (Len(log) >= 1 /\ Last.op = "undo" /\ pre.history = <<>>) =>
            /\ View(World) = pre
            /\ notice = "nothing to undo"
    /\ (Len(log) >= 1 /\ Last.op = "redo" /\ pre.future = <<>>) =>
            /\ View(World) = pre
            /\ notice = "nothing to redo"

\* C4 witness: a redo on an empty future while history holds entries.
C4_Witness ==
    /\ Len(log) >= 1
    /\ Last.op = "redo"
    /\ pre.future = <<>>
    /\ pre.history # <<>>
    /\ notice = "nothing to redo"

\* No object is held twice: not by the tables and a stack entry, not by two entries.
NoSharing ==
    LET order == RefOrder(World)
    IN  Cardinality({order[i] : i \in 1..Len(order)}) = Len(order)

\* C6: a snapshot is not changed after it is pushed. Every call leaves the entries
\* of history and future that it keeps with their rows, what it pushes is the rows
\* the tables had before the call, and the tables share no object with an entry.
C6_SnapshotsImmutable ==
    [][LET old == View(World)
           new == View(World)'
       IN  /\ new.history \in {old.history,
                                SubSeq(old.history, 1, Len(old.history) - 1),
                                DequeAppend(old.history, old.current)}
           /\ new.future \in {old.future, <<>>,
                               SubSeq(old.future, 2, Len(old.future)),
                               DequeAppendLeft(old.future, old.current)}
           /\ NoSharing']_vars

\* C6 witness: an editor save changed the tables in place while history held
\* older entries.
C6_Witness ==
    /\ Len(log) >= 1
    /\ Last.op = "save"
    /\ notice = "updated"
    /\ Current # pre.current
    /\ Len(history) >= 2
    /\ Len(pre.future) >= 1

\* C7, as claimed: after 20 update_data from the initial tables S0, 21 undo raise
\* nothing and leave the tables at the oldest retained snapshot, which is not S0.
C7_NotInitial ==
    (run.pure /\ run.updates = HISTORY_LIMIT /\ run.undos = HISTORY_LIMIT + 1) =>
        /\ notice # "IndexError"
        /\ Current = pre.current
        /\ Current # Tables(0)

\* C7, amended: after 20 update_data from the initial tables S0, 21 undo raise
\* nothing and leave the tables at the oldest retained snapshot, which is S0: the
\* 20 entries of history hold S0..S19, and the 21st undo finds history empty.
C7_BackToInitial ==
    (run.pure /\ run.updates = HISTORY_LIMIT /\ run.undos = HISTORY_LIMIT + 1) =>
        /\ notice = "nothing to undo"
        /\ Current = pre.current
        /\ Current = Tables(0)
        /\ history = <<>>
        /\ Len(future) = HISTORY_LIMIT

\* C7 witness: 20 update_data, then 21 undo.
C7_Witness ==
    /\ run.pure
    /\ run.updates = HISTORY_LIMIT
    /\ run.undos = HISTORY_LIMIT + 1
    /\ workload = "serial"

\* C8: after n > 20 update_data installing S1..Sn, history holds S(n-20)..S(n-1) in
\* that order; 20 undo then end at S(n-20), and no entry holds S0..S(n-21).
C8_OldestFirst ==
    (run.pure /\ run.updates > HISTORY_LIMIT /\ workload = "serial") =>
        LET n == run.updates
            v == View(World)
            held == {v.current} \cup {v.history[i] : i \in 1..Len(v.history)}
                                \cup {v.future[i] : i \in 1..Len(v.future)}
        IN  /\ run.undos = 0 =>
                v.history = [i \in 1..HISTORY_LIMIT |-> Tables(n - HISTORY_LIMIT + i - 1)]
            /\ run.undos = HISTORY_LIMIT =>
                v.current = Tables(n - HISTORY_LIMIT) /\ v.history = <<>>
            /\ \A k \in 0..(n - HISTORY_LIMIT - 1) : Tables(k) \notin held

\* C8 witness: more than 20 update_data, then 20 undo.
C8_Witness ==
    /\ run.pure
    /\ run.updates > HISTORY_LIMIT
    /\ run.undos = HISTORY_LIMIT
    /\ workload = "serial"

\* C5: every edit (an import, a valid editor save) adds exactly one snapshot to
\* history, the tables as they were before it; a pass triggered by anything else
\* (undo, redo, a filter, the uploader emptied, a click) adds none and does not
\* clear future: it leaves what the bare undo, redo or nothing leaves.
C5_OncePerEdit ==
    [][LET op == log'[Len(log')].op
           old == View(World)
           new == View(World)'
       IN  /\ (op = "upload" /\ notice' = "import done") =>
                   new.history = DequeAppend(old.history, old.current)
           /\ (op = "save" /\ notice' = "updated") =>
                   new.history = DequeAppend(old.history, old.current)
           /\ op = "undo" => new = View(Undo(World))
           /\ op = "redo" => new = View(Redo(World))
           /\ op \in {"filter", "clear", "click"} => new = old]_vars

\* The dates of the call, and whether it has returned.
Returned == workload = "clip" /\ result.kind # "pending"
SegStart == ToDate(call.start)
SegEnd == ToDate(call.end)
ViewStart == ToDate(call.view_start)
ViewEnd == ToDate(call.view_end)

\* C9: clip_segment_to_range raises its ValueError whenever the segment's end is
\* before its start, for every view window: one the segment lies outside of, an
\* inverted one. The range check precedes the overlap test.
C9_InvertedRejected ==
    (Returned /\ DateLT(SegEnd, SegStart)) => result.kind = "ValueError"

\* C9 witness: an inverted segment entirely before an inverted view window.
C9_Witness ==
    /\ Returned
    /\ DateLT(SegEnd, SegStart)
    /\ DateLT(SegStart, ViewEnd)
    /\ DateLT(ViewEnd, ViewStart)
    /\ result.kind = "ValueError"

\* C10: for a segment with start <= end and a window with start <= end the call
\* returns the inclusive intersection: None exactly when the segment ends before
\* the window or starts after it, otherwise start = max of the starts and end = min
\* of the ends, at midnight, so viewStart <= start <= end <= viewEnd; a segment
\* touching the window in one day is not None.
C10_Intersection ==
    (Returned /\ DateLE(SegStart, SegEnd) /\ DateLE(ViewStart, ViewEnd)) =>
        LET inSegment == {d \in Days : DateLE(SegStart, d) /\ DateLE(d, SegEnd)}
            inView == {d \in Days : DateLE(ViewStart, d) /\ DateLE(d, ViewEnd)}
            low == IF DateLT(SegStart, ViewStart) THEN ViewStart ELSE SegStart
            high == IF DateLT(ViewEnd, SegEnd) THEN ViewEnd ELSE SegEnd
        IN  /\ result.kind = "None" <=> (DateLT(SegEnd, ViewStart) \/ DateLT(ViewEnd, SegStart))
            /\ result.kind = "None" <=> inSegment \cap inView = {}
            /\ result.kind # "ValueError"
            /\ result.kind = "ClippedSegment" =>
                    /\ result.start = Midnight(low)
                    /\ result.end = Midnight(high)
                    /\ DateLE(ViewStart, low) /\ DateLE(low, high) /\ DateLE(high, ViewEnd)
                    /\ {d \in Days : DateLE(low, d) /\ DateLE(d, high)}
                           = inSegment \cap inView

\* C10 witness: a segment of several days whose last day is the window's first.
C10_Witness ==
    /\ Returned
    /\ DateLT(SegStart, SegEnd)
    /\ SegEnd = ViewStart
    /\ DateLT(ViewStart, ViewEnd)
    /\ result.kind = "ClippedSegment"
    /\ result.start = result.end

\* The dates of a month_range or make_tickvals call, and whether it has returned.
TickStart == ToDate(call.start)
TickEnd == ToDate(call.end)
Ranged == workload = "dates" /\ result.kind \in {"months", "ValueError"}
Ticked == workload = "dates" /\ result.kind = "ticks"

\* The dates of the returned ticks.
TickDates == {DatePart(result.value[i]) : i \in DOMAIN result.value}

\* The days from a to b, both included.
DaysBetween(a, b) == {d \in Calendar : DateLE(a, d) /\ DateLE(d, b)}

\* Whether d is the last day of its calendar month.
IsLastOfMonth(d) == d.day = DaysInMonth(d.year, d.month)

\* C11: for start <= end the set of dates make_tickvals returns is exactly the days
\* d of [start, end] whose day of month is 6, 12, 18 or 24, or that end their bucket
\* (the last day of the calendar month, or end itself); every returned tick is at
\* midnight and within [start, end]; a range that is one whole month gives the days
\* {6, 12, 18, 24, last day}.
C11_TickSet ==
    (Ticked /\ DateLE(TickStart, TickEnd)) =>
        /\ TickDates = {d \in DaysBetween(TickStart, TickEnd) :
                            d.day \in {6, 12, 18, 24} \/ IsLastOfMonth(d) \/ d = TickEnd}
        /\ \A i \in DOMAIN result.value :
               /\ result.value[i] = Midnight(DatePart(result.value[i]))
               /\ DateLE(TickStart, DatePart(result.value[i]))
               /\ DateLE(DatePart(result.value[i]), TickEnd)
        /\ (TickStart.day = 1 /\ TickEnd = Replace(TickStart, DaysInMonth(TickStart.year,
                                                                          TickStart.month)))
               => {d.day : d \in TickDates} = {6, 12, 18, 24, TickEnd.day}

\* C11 witness: a range from the middle of January 2024 to the end of the leap
\* February: the ticks of January before the start are dropped, 29 is the last one.
C11_Witness ==
    /\ Ticked
    /\ TickStart = Date(2024, 1, 10)
    /\ TickEnd = Date(2024, 2, 29)
    /\ TickDates = {Date(2024, 1, 12), Date(2024, 1, 18), Date(2024, 1, 24), Date(2024, 1, 31),
                    Date(2024, 2, 6), Date(2024, 2, 12), Date(2024, 2, 18), Date(2024, 2, 24),
                    Date(2024, 2, 29)}

\* C12: month_range fails with an invalid-range error whenever end < start, and
\* returns no list of buckets then, also when both are in one calendar month.
C12_InvertedFails ==
    (Ranged /\ DateLT(TickEnd, TickStart)) => result.kind = "ValueError"

\* The tables and the window of a build_gantt_dataframe call, and the rows of the
\* frame it returned.
Built == workload = "gantt" /\ result.kind = "frame"
ProjectsIn == {call.projects[i] : i \in DOMAIN call.projects}
SegmentsIn == {call.segments[i] : i \in DOMAIN call.segments}
FrameRows == {result.value[i] : i \in DOMAIN result.value}

\* A date cell of a table and a datetime as arguments of clip_segment_to_range.
AsStr(cell) ==
    [kind |-> "str", year |-> cell[1], month |-> cell[2], day |-> cell[3], hour |-> 0]
AsDatetime(dt) ==
    [kind |-> "datetime", year |-> dt.year, month |-> dt.month, day |-> dt.day,
     hour |-> dt.hour]

\* The segments table with its rows in the opposite order.
Reversed(rows) == [i \in DOMAIN rows |-> rows[Len(rows) + 1 - i]]

\* C13: every project of the projects table that owns no segment and whose own
\* span [start_date, end_date] intersects the view window has a row in the frame,
\* and the row's interval is the project's span clipped to the window.
C13_FallbackBar ==
    Built =>
        \A p \in ProjectsIn :
            LET start == ToDatetime(p.start_date)
                end == ToDatetime(p.end_date)
            IN  (/\ \A s \in SegmentsIn : s.project_id # p.id
                 /\ DateTimeGE(end, call.view_start)
                 /\ DateTimeLE(start, call.view_end))
                    => \E r \in FrameRows :
                           /\ r.project_id = p.id
                           /\ r.start = ClipLower(start, call.view_start)
                           /\ r.end = ClipUpper(end, call.view_end)

\* C14: the rows of each project carry the ordinals 0..k-1 in ascending order of
\* clipped start, rows of equal start in the order of their segment_id; so the
\* frame has the same rows, ordinals included, for the segments table in the
\* opposite row order.
C14_DeterministicOrdinals ==
    Built =>
        /\ \A r \in FrameRows :
               r.row = Cardinality({q \in FrameRows :
                            /\ q.project_id = r.project_id
                            /\ \/ DateTimeLT(q.start, r.start)
                               \/ q.start = r.start /\ StrLT(q.segment_id, r.segment_id)})
        /\ LET again == BuildGanttDataframe(call.projects, Reversed(call.segments),
                                            call.view_start, call.view_end)
           IN  {again[i] : i \in DOMAIN again} = FrameRows

\* C15: for a window with viewStart <= viewEnd the frame has a row for a segment
\* exactly when clip_segment_to_range returns a ClippedSegment for the segment's
\* dates, with that start and end; every row has viewStart <= start <= end <=
\* viewEnd, and a segment with end_date < start_date has no row.
C15_AgreesWithClipper ==
    (Built /\ ~DateTimeLT(call.view_end, call.view_start)) =>
        /\ \A s \in SegmentsIn :
               LET clipped == ClipSegmentToRange(AsStr(s.start_date), AsStr(s.end_date),
                                                 AsDatetime(call.view_start),
                                                 AsDatetime(call.view_end))
                   rows == {r \in FrameRows : r.segment_id = s.segment_id}
               IN  /\ rows # {} <=> clipped.kind = "ClippedSegment"
                   /\ \A r \in rows : r.start = clipped.start /\ r.end = clipped.end
                   /\ DateLT(FromIso(s.end_date), FromIso(s.start_date)) => rows = {}
        /\ \A r \in FrameRows :
               /\ DateTimeLE(call.view_start, r.start)
               /\ DateTimeLE(r.start, r.end)
               /\ DateTimeLE(r.end, call.view_end)

\* Whether a segment's project_id is the id of no row of the projects table.
Orphaned(s) == \A p \in ProjectsIn : p.id # s.project_id

\* C16: a segment whose project_id is the id of no project of the projects table
\* has no row in the frame, whatever its dates; every row belongs to a project of
\* the table.
C16_OrphansExcluded ==
    Built =>
        /\ \A s \in SegmentsIn :
               Orphaned(s) => \A r \in FrameRows : r.segment_id # s.segment_id
        /\ \A r \in FrameRows : \E p \in ProjectsIn : p.id = r.project_id

\* C16 witness: an orphaned segment whose own dates lie in the view window, next
\* to a segment of project "0" that has its row.
C16_Witness ==
    /\ Built
    /\ \E s \in SegmentsIn :
           /\ Orphaned(s)
           /\ ~DateLT(FromIso(s.end_date), FromIso(s.start_date))
           /\ DateTimeLE(call.view_start, ToDatetime(s.start_date))
           /\ DateTimeLE(ToDatetime(s.end_date), call.view_end)
    /\ \E r \in FrameRows : r.project_id = "0"
    /\ Len(result.value) = 1

\* C17: len(history) + len(future) <= 20 in every state; so an undo that pops a
\* snapshot puts the tables in front of future without dropping an entry of it, and
\* a redo puts them at the end of history without dropping an entry of it; and k
\* undo calls (k <= len(history)) followed by k redo calls leave the tables,
\* history and future with exactly the values they had before.
C17_LosslessTrip ==
    /\ Len(history) + Len(future) <= HISTORY_LIMIT
    /\ (Len(log) >= 1 /\ Last.op = "undo" /\ pre.history # <<>>) =>
            /\ View(World).future = <<pre.current>> \o pre.future
            /\ View(World).history = SubSeq(pre.history, 1, Len(pre.history) - 1)
    /\ (Len(log) >= 1 /\ Last.op = "redo" /\ pre.future # <<>>) =>
            /\ View(World).history = pre.history \o <<pre.current>>
            /\ View(World).future = Tail(pre.future)
    /\ (trip.phase = "run" /\ trip.redos = trip.undos) => View(World) = trip.base

\* C17 witness: from a full history and a future of two entries, 18 undo fill
\* future to 20 entries and 18 redo bring everything back.
C17_Witness ==
    /\ trip.phase = "run"
    /\ trip.undos = HISTORY_LIMIT - 2
    /\ trip.redos = trip.undos
    /\ Len(trip.base.history) = HISTORY_LIMIT - 2
    /\ Len(trip.base.future) = 2
    /\ View(World) = trip.base

\* C18: for start <= end the ticks make_tickvals returns are in strictly ascending
\* order, so no date is returned twice, also when end or a month's last day is a
\* day 6, 12, 18 or 24.
C18_StrictlyAscending ==
    (Ticked /\ DateLE(TickStart, TickEnd)) =>
        \A i \in 1..(Len(result.value) - 1) :
            DateTimeLT(result.value[i], result.value[i + 1])

====
